---- MODULE Spec2Model ----
(***************************************************************************)
(* State-machine model of the SQS message processor                        *)
(* (src/src/processor/main.py), its message schema (src/src/shared/        *)
(* schemas.py) and the Redis aggregate store (src/src/shared/              *)
(* redis_client.py).                                                       *)
(*                                                                         *)
(* The processor is a single-threaded loop; the only asynchronous          *)
(* callback is the signal handler, which may run between any two steps of  *)
(* the loop.  The flag `running` is read at two places only (the `while`   *)
(* of run() and the `if` at the top of the per-message loop), so each      *)
(* read is a step of its own and everything between two reads is one step. *)
(***************************************************************************)
EXTENDS Integers, Sequences, FiniteSets, TLC

VARIABLES
    pc,              \* position of run(): wait_redis, backoff, get_queue_url,
                     \* loop_check, receive, for_check, process, sleep,
                     \* stopped (run() returned), exited (sys.exit(1))
    running,         \* SQSProcessor.running
    queue_url,       \* SQSProcessor.queue_url ("none" until resolved)
    attempt,         \* loop variable of _wait_for_redis_connection
    q,               \* the main queue: id -> [body, rc, st]
    store,           \* the Redis keys written by RedisClient
    messages,        \* response["Messages"] of the current batch cycle
    idx,             \* position of the for loop in messages (1-based)
    processed_count, \* local of process_messages
    ret,             \* <<n>> once process_messages has returned n, else <<>>
    calls,           \* queue and store calls issued in the current batch cycle
    applied,         \* history: id -> number of successful increments for it
    stopAt,          \* history: where the loop was when running was cleared
    rcvAfterStop,    \* history: receive_message calls started with running false
    aborted,         \* history: the cycle ended in the handler of lines 286-288
    failedInc,       \* history: ids for which an increment_event call raised
    failedDel,       \* history: ids whose delete raised after a successful increment
    cycles,          \* batch cycles started
    faults,          \* failures injected into queue and store calls
    health,          \* history: the latest health-check, "none" once waited on
    wait_time,       \* the sleep made since the latest health-check, in tenths
                     \* of a second (0: none)
    dlq_url,         \* SQSProcessor.dlq_url ("none" until resolved)
    sqs,             \* the queue service: which queues exist, their attributes
    pcalls,          \* queue calls issued by _get_queue_url, in order
    outages,         \* provisioning calls the queue service may still fail
    slept,           \* history: run() slept since the latest receive_message
    reply,           \* history: what the store did with the latest health-check
                     \* ("none" once waited on)
    rpc,             \* position of a reset_stats call: idle, delete
    reset_types,     \* local event_types of the reset_stats call under way
    stats,           \* the latest EventStats built by a reader: <<>> is None
    hist             \* history of the increment_event and reset_stats calls

\* what start-up writes and the batch cycles leave alone
startVars == <<health, wait_time, dlq_url, sqs, pcalls, outages, reply>>

\* what the other clients of the store write
clientVars == <<rpc, reset_types, stats, hist>>

vars == <<pc, running, queue_url, attempt, q, store, messages, idx,
          processed_count, ret, calls, applied, stopAt, rcvAfterStop,
          aborted, failedInc, failedDel, cycles, faults, health, wait_time,
          dlq_url, sqs, pcalls, outages, slept, reply, rpc, reset_types,
          stats, hist>>

(***************************************************************************)
(* Bounds of the model                                                     *)
(***************************************************************************)
MaxMsgs == 2

MaxCycles == 3

MaxFaults == 2

MaxOutages == 4

\* increment_event calls and reset_stats calls made by the store's clients
MaxIncs == 3

MaxResets == 2

(***************************************************************************)
(* Program constants                                                       *)
(***************************************************************************)
SQS_MAX_RECEIVE_COUNT == 3

MAX_MESSAGES_PER_BATCH == 10

max_retries == 30

SQS_VISIBILITY_TIMEOUT == 300

Ids == 1..MaxMsgs

Types == {"a", "b"}

(***************************************************************************)
(* Message bodies.  A body is raw text: either text json.loads rejects or  *)
(* the text of a JSON document.  Documents are tagged values; an object is *)
(* a function from its keys to values.                                     *)
(***************************************************************************)
JNum(n) == [t |-> "num", s |-> "", n |-> n]

JStr(s) == [t |-> "str", s |-> s, n |-> 0]

JNull == [t |-> "null", s |-> "", n |-> 0]

JObj(f) == [t |-> "object", f |-> f]

Text(doc) == [wf |-> TRUE, doc |-> doc]

NotJson == [wf |-> FALSE, doc |-> JNull]

Bodies ==
    { NotJson,                                                 \* "invalid-json"
      Text(JNum(42)),                                          \* 42
      Text(JObj([type |-> JStr("a")])),                        \* value missing
      Text(JObj([invalid |-> JStr("schema")])),                \* both missing
      Text(JObj([type |-> JStr("a"), value |-> JStr("abc")])), \* non-numeric
      Text(JObj([type |-> JStr("a"), value |-> JNum(1)])),
      Text(JObj([type |-> JStr("b"), value |-> JStr("2"), extra |-> JNull])) }

\* json.loads: the document, or JSONDecodeError
json_loads(body) ==
    IF body.wf THEN [ok |-> TRUE, doc |-> body.doc]
               ELSE [ok |-> FALSE, doc |-> JNull]

\* the strings pydantic's lax int/float validation parses as a number
StrToNum(s) ==
    CASE s = "1" -> [ok |-> TRUE, n |-> 1]
      [] s = "2" -> [ok |-> TRUE, n |-> 2]
      [] OTHER   -> [ok |-> FALSE, n |-> 0]

\* SQSMessageBody(**body_dict) for a mapping: the validated model, or
\* ValidationError.  Keys other than type and value are ignored.
SQSMessageBody(f) ==
    LET hasT == "type" \in DOMAIN f
        hasV == "value" \in DOMAIN f
        tOk  == hasT /\ f["type"].t = "str"
        num  == IF ~hasV THEN [ok |-> FALSE, n |-> 0]
                ELSE IF f["value"].t = "num" THEN [ok |-> TRUE, n |-> f["value"].n]
                ELSE IF f["value"].t = "str" THEN StrToNum(f["value"].s)
                ELSE [ok |-> FALSE, n |-> 0]
    IN  IF tOk /\ num.ok
        THEN [ok |-> TRUE, type |-> f["type"].s, value |-> num.n]
        ELSE [ok |-> FALSE, type |-> "", value |-> 0]

(***************************************************************************)
(* The aggregate store (Redis).  count and sum hold the values of the keys *)
(* stats:count:{t} and stats:sum:{t}; keys holds the keys that exist and   *)
(* event_types is the set stats:event_types.                               *)
(***************************************************************************)
EmptyStore ==
    [count |-> [t \in Types |-> 0], sum |-> [t \in Types |-> 0],
     keys |-> {}, event_types |-> {}]

\* increment_event with the sum update dropped
increment_event_CountOnly(s, event_type, value) ==
    [s EXCEPT !.count[event_type] = @ + 1,
              !.keys = @ \cup {<<"count", event_type>>, <<"sum", event_type>>},
              !.event_types = @ \cup {event_type}]

\* increment_event writing the keys with SET instead of adding to them
increment_event_Set(s, event_type, value) ==
    [count |-> [s.count EXCEPT ![event_type] = 1],
     sum |-> [s.sum EXCEPT ![event_type] = value],
     keys |-> s.keys \cup {<<"count", event_type>>, <<"sum", event_type>>},
     event_types |-> s.event_types \cup {event_type}]

\* RedisClient.increment_event: one MULTI/EXEC pipeline of INCRBYFLOAT count 1,
\* INCRBYFLOAT sum value, SADD registry type
increment_event(s, event_type, value) ==
    [count |-> [s.count EXCEPT ![event_type] = @ + 1],
     sum |-> [s.sum EXCEPT ![event_type] = @ + value],
     keys |-> s.keys \cup {<<"count", event_type>>, <<"sum", event_type>>},
     event_types |-> s.event_types \cup {event_type}]

\* the float arguments increment_event can be called with: SQSMessageBody
\* admits every int and float, negative and non-finite ones included
\* (json.loads reads Infinity, NaN and 1e999 as floats)
Float(n) == [finite |-> TRUE, n |-> n]

NonFinite == [finite |-> FALSE, n |-> 0]

Values == {Float(-1), Float(1), Float(2), NonFinite}

\* pipe.execute() of increment_event as the server runs the transaction:
\* the queued commands run in order without interleaving and without
\* rollback.  INCRBYFLOAT by a non-finite amount is rejected ("increment
\* would produce NaN or Infinity"), the commands queued around it are still
\* applied, and execute() raises the error afterwards.
execute_increment(s, event_type, value) ==
    IF value.finite
    THEN [store |-> increment_event(s, event_type, value.n), raised |-> FALSE]
    ELSE [store |-> [s EXCEPT !.count[event_type] = @ + 1,
                              !.keys = @ \cup {<<"count", event_type>>},
                              !.event_types = @ \cup {event_type}],
          raised |-> TRUE]

\* RedisClient.get_event_stats (lines 44-55): both keys read in one
\* transaction; None (<<>>) when either is missing
get_event_stats(s, event_type) ==
    IF \/ <<"count", event_type>> \notin s.keys
       \/ <<"sum", event_type>> \notin s.keys
    THEN <<>>
    ELSE <<[count |-> s.count[event_type], total |-> s.sum[event_type]]>>

\* RedisClient.get_all_event_types (lines 57-59): SMEMBERS
get_all_event_types(s) == s.event_types

\* the key of the registry set (REDIS_EVENTS_SET)
REDIS_EVENTS_SET == <<"stats:event_types", "">>

\* a reset that leaves the registry set in place
keys_to_delete_NoRegistry(event_types) ==
    {<<k, t>> : k \in {"count", "sum"}, t \in event_types}

\* lines 94-102: keys_to_delete built from the event types read
keys_to_delete(event_types) ==
    {<<k, t>> : k \in {"count", "sum"}, t \in event_types}
        \cup {REDIS_EVENTS_SET}

\* line 104: DEL of the keys named
delete(s, ks) ==
    [count |-> [t \in Types |->
                  IF <<"count", t>> \in ks THEN 0 ELSE s.count[t]],
     sum |-> [t \in Types |-> IF <<"sum", t>> \in ks THEN 0 ELSE s.sum[t]],
     keys |-> s.keys \ ks,
     event_types |-> IF REDIS_EVENTS_SET \in ks THEN {} ELSE s.event_types]

\* a division: the quotient as a fraction, or the ZeroDivisionError
Quotient(a, b) ==
    IF b = 0 THEN [fault |-> TRUE, num |-> 0, den |-> 1]
    ELSE [fault |-> FALSE, num |-> a, den |-> b]

\* an average that divides whatever the count
average_Unguarded(es) == Quotient(es.total, es.count)

\* EventStats.average (schemas.py lines 29-31)
average(es) ==
    IF es.count > 0 THEN Quotient(es.total, es.count) ELSE Quotient(0, 1)

(***************************************************************************)
(* Calls issued by a batch cycle.  h is the receipt handle of the message  *)
(* the call is made for: a handle names one delivery, <<id, receive count>>*)
(***************************************************************************)
NoHandle == <<0, 0>>

Call(op, h, ok) == [op |-> op, h |-> h, ok |-> ok, type |-> "", value |-> 0]

IncCall(h, ok, type, value) ==
    [op |-> "increment_event", h |-> h, ok |-> ok, type |-> type, value |-> value]

\* a received message: its receipt handle, the delivery count the service
\* keeps for it, and the ApproximateReceiveCount attribute of the response
\* (<<>> when the response carries none)
Envelope(id, rc, arc) == [id |-> id, h |-> <<id, rc>>, rc |-> rc, arc |-> arc]

\* lines 205-206: int(attributes.get("ApproximateReceiveCount", "1"))
receive_count(m) == IF m.arc = <<>> THEN 1 ELSE m.arc[1]

Outcome(cs, app, del, cnt, raised) ==
    [calls |-> cs, applied |-> app, deleted |-> del, counted |-> cnt,
     raised |-> raised]

\* visibility extended for every message
ExtendVisibility_Always(m, visOk) ==
    <<[Call("change_message_visibility", m.h, visOk)
         EXCEPT !.value = SQS_VISIBILITY_TIMEOUT]>>

\* lines 210-215: a redelivered message gets its visibility extended first;
\* _extend_message_visibility swallows a failure of the call
ExtendVisibility(m, visOk) ==
    IF receive_count(m) > 1
    THEN <<[Call("change_message_visibility", m.h, visOk)
              EXCEPT !.value = SQS_VISIBILITY_TIMEOUT]>>
    ELSE <<>>

\* a poison message counted as processed
PoisonBranch_Counted(m, delOk) ==
    Outcome(<<Call("delete_message", m.h, delOk)>>, FALSE, delOk, 1, ~delOk)

\* a poison message left on the queue instead of deleted
PoisonBranch_Keep(m, delOk) == Outcome(<<>>, FALSE, FALSE, 0, FALSE)

\* lines 220-227 and 235-242: JSONDecodeError / ValidationError: delete and
\* continue; a failing delete_message is not caught here and leaves the loop
PoisonBranch(m, delOk) ==
    Outcome(<<Call("delete_message", m.h, delOk)>>, FALSE, delOk, 0, ~delOk)

\* line 231 with a document that is not a mapping: ** raises TypeError, which
\* only the outer handler (lines 286-288) catches
NonMappingBranch(m) == Outcome(<<>>, FALSE, FALSE, 0, TRUE)

\* the message acknowledged before it is aggregated
AggregateBranch_DeleteFirst(m, ev, incOk, delOk) ==
    Outcome(<<Call("delete_message", m.h, delOk),
              IncCall(m.h, incOk, ev.type, ev.value)>>,
            incOk, delOk, IF incOk /\ delOk THEN 1 ELSE 0, FALSE)

\* a pipeline that is not a transaction: the count applied although the call raises
AggregateBranch_ApplyOnError(m, ev, incOk, delOk) ==
    IF ~incOk
    THEN Outcome(<<IncCall(m.h, FALSE, ev.type, ev.value)>>, TRUE, FALSE, 0, FALSE)
    ELSE Outcome(<<IncCall(m.h, TRUE, ev.type, ev.value),
                   Call("delete_message", m.h, delOk)>>,
                 TRUE, delOk, IF delOk THEN 1 ELSE 0, FALSE)

\* the delete issued whether or not the increment succeeded
AggregateBranch_DeleteOnError(m, ev, incOk, delOk) ==
    Outcome(<<IncCall(m.h, incOk, ev.type, ev.value),
              Call("delete_message", m.h, delOk)>>,
            incOk, delOk, IF incOk /\ delOk THEN 1 ELSE 0, FALSE)

\* lines 244-279: increment, then delete, then count; any exception of either
\* call is caught, logged, and the loop continues without delete or count
AggregateBranch(m, ev, incOk, delOk) ==
    IF ~incOk
    THEN Outcome(<<IncCall(m.h, FALSE, ev.type, ev.value)>>, FALSE, FALSE, 0, FALSE)
    ELSE IF ~delOk
    THEN Outcome(<<IncCall(m.h, TRUE, ev.type, ev.value),
                   Call("delete_message", m.h, FALSE)>>, TRUE, FALSE, 0, FALSE)
    ELSE Outcome(<<IncCall(m.h, TRUE, ev.type, ev.value),
                   Call("delete_message", m.h, TRUE)>>, TRUE, TRUE, 1, FALSE)

\* the handling of one message with a failed visibility extension ending
\* the cycle instead of being logged
HandleMessage_VisibilityRaises(m, body, visOk, incOk, delOk) ==
    LET ext == ExtendVisibility(m, visOk)
        parsed == json_loads(body)
        r == IF ~parsed.ok THEN PoisonBranch(m, delOk)
             ELSE IF parsed.doc.t # "object" THEN NonMappingBranch(m)
             ELSE LET ev == SQSMessageBody(parsed.doc.f)
                  IN  IF ~ev.ok THEN PoisonBranch(m, delOk)
                      ELSE AggregateBranch(m, ev, incOk, delOk)
    IN  IF ext # <<>> /\ ~visOk
        THEN Outcome(ext, FALSE, FALSE, 0, TRUE)
        ELSE [r EXCEPT !.calls = ext \o @]

\* lines 201-279: the body of the for loop for one message
HandleMessage(m, body, visOk, incOk, delOk) ==
    LET parsed == json_loads(body)
        r == IF ~parsed.ok THEN PoisonBranch(m, delOk)
             ELSE IF parsed.doc.t # "object" THEN NonMappingBranch(m)
             ELSE LET ev == SQSMessageBody(parsed.doc.f)
                  IN  IF ~ev.ok THEN PoisonBranch(m, delOk)
                      ELSE AggregateBranch(m, ev, incOk, delOk)
    IN  [r EXCEPT !.calls = ExtendVisibility(m, visOk) \o @]

\* the event a body carries, when it validates
EventOf(body) ==
    LET parsed == json_loads(body)
    IN  IF parsed.ok /\ parsed.doc.t = "object"
        THEN SQSMessageBody(parsed.doc.f)
        ELSE [ok |-> FALSE, type |-> "", value |-> 0]

Failed(cs) == Cardinality({i \in 1..Len(cs) : ~cs[i].ok})

RECURSIVE SeqOf(_, _)
SeqOf(S, withCount) ==
    IF S = {} THEN <<>>
    ELSE LET id == CHOOSE x \in S : \A y \in S : x <= y
             rc == q[id].rc + 1
         IN  <<Envelope(id, rc, IF withCount THEN <<rc>> ELSE <<>>)>>
                \o SeqOf(S \ {id}, withCount)

(***************************************************************************)
(* Start-up wait.  wait_time is kept in tenths of a second, so that        *)
(* min(2**attempt * 0.1, 5) is Min(2^attempt, 50).                         *)
(***************************************************************************)
\* what the store does with the PING of a health-check: it answers, the
\* connection is refused or lost (redis.ConnectionError), or the socket
\* times out (redis.TimeoutError, which is not a ConnectionError)
StoreAnswers == {"PONG", "ConnectionError", "TimeoutError"}

\* a ping that maps every failure to False
ping_CatchAll(answer) == IF answer = "PONG" THEN "true" ELSE "false"

\* RedisClient.ping (redis_client.py lines 21-27): True, False, or the
\* exception it does not catch
ping(answer) ==
    CASE answer = "PONG"            -> "true"
      [] answer = "ConnectionError" -> "false"
      [] OTHER                      -> "raise"

\* line 168: wait_time = min(2**attempt * 0.1, 5)
WaitTime(n) == IF 2^n < 50 THEN 2^n ELSE 50

(***************************************************************************)
(* Queue provisioning (_get_queue_url and its helpers).  The queue service *)
(* is sqs: which of the two queues exist and the attributes of the main    *)
(* queue.  A provisioning run is a record P threaded through the calls:    *)
(* the processor's two URLs, the service, the calls issued so far, the     *)
(* positions in the call sequence at which the service fails, whether the  *)
(* latest call raised, and what the latest get_queue_attributes returned.  *)
(***************************************************************************)
Policy(arn, n) == [deadLetterTargetArn |-> arn, maxReceiveCount |-> n]

NoPolicy == Policy("", 0)

\* the Attributes argument of lines 69-77 and 121-129
Attributes(vt, policy) == [VisibilityTimeout |-> vt, RedrivePolicy |-> policy]

\* a queue created without attributes (line 94)
DefaultAttributes == Attributes(30, NoPolicy)

QueueUrlOf(name) == IF name = "main" THEN "url" ELSE "url-dlq"

ArnOf(name) == IF name = "main" THEN "arn:main" ELSE "arn:dlq"

NameOf(url) == IF url = "url" THEN "main" ELSE "dlq"

CallSlots == 1..7

PCall(op, name, ok, attrs, made) ==
    [op |-> op, queue |-> name, ok |-> ok, attrs |-> attrs, made |-> made]

\* the service fails the call about to be issued
Down(P) == (Len(P.log) + 1) \in P.fail

Returned(P, c) == [P EXCEPT !.log = Append(@, c), !.raised = ~c.ok]

\* sqs_client.get_queue_url(QueueName=name): raises when the service is down
\* or no queue has that name
sqs_get_queue_url(P, name) ==
    Returned(P, PCall("get_queue_url", name, ~Down(P) /\ P.sqs.exists[name],
                      DefaultAttributes, FALSE))

\* sqs_client.create_queue(QueueName=name, Attributes=attrs): creates the
\* queue; for a queue that exists it returns the URL when the attributes
\* are those of the queue and raises otherwise, changing nothing
sqs_create_queue(P, name, attrs) ==
    LET there == P.sqs.exists[name]
        ok    == ~Down(P) /\ (there => P.sqs.attrs[name] = attrs)
        P1    == Returned(P, PCall("create_queue", name, ok, attrs, ok /\ ~there))
    IN  IF ok /\ ~there
        THEN [P1 EXCEPT !.sqs.exists[name] = TRUE, !.sqs.attrs[name] = attrs]
        ELSE P1

\* sqs_client.get_queue_attributes(QueueUrl=url, ...): the ARN and the
\* attributes of the queue
sqs_get_queue_attributes(P, url) ==
    LET name == NameOf(url)
        ok   == ~Down(P) /\ P.sqs.exists[name]
        P1   == Returned(P, PCall("get_queue_attributes", name, ok,
                                  DefaultAttributes, FALSE))
    IN  IF ok THEN [P1 EXCEPT !.arn = ArnOf(name), !.got = P.sqs.attrs[name]]
        ELSE P1

\* sqs_client.set_queue_attributes(QueueUrl=url, Attributes=attrs)
sqs_set_queue_attributes(P, url, attrs) ==
    LET name == NameOf(url)
        ok   == ~Down(P) /\ P.sqs.exists[name]
        P1   == Returned(P, PCall("set_queue_attributes", name, ok, attrs, FALSE))
    IN  IF ok THEN [P1 EXCEPT !.sqs.attrs[name] = attrs] ELSE P1

\* an exception caught and logged (lines 138-139)
Caught(P) == [P EXCEPT !.raised = FALSE]

\* a policy that names the main queue itself as its target
RedriveAttributes_SelfTarget(arn) ==
    Attributes(SQS_VISIBILITY_TIMEOUT,
               Policy(ArnOf("main"), SQS_MAX_RECEIVE_COUNT))

\* the redrive policy the processor builds (lines 69-77, 121-129)
RedriveAttributes(arn) ==
    Attributes(SQS_VISIBILITY_TIMEOUT, Policy(arn, SQS_MAX_RECEIVE_COUNT))

\* _setup_dlq that creates the queue without looking for it
setup_dlq_AlwaysCreate(P) ==
    LET created == sqs_create_queue(P, "dlq", DefaultAttributes)
    IN  IF created.raised THEN created
        ELSE [created EXCEPT !.dlq_url = QueueUrlOf("dlq")]

\* _setup_dlq (lines 86-96): look the DLQ up by name, create it when the
\* lookup raises; an exception of create_queue propagates
setup_dlq(P) ==
    LET found   == sqs_get_queue_url(P, "dlq")
        created == sqs_create_queue(found, "dlq", DefaultAttributes)
    IN  IF ~found.raised THEN [found EXCEPT !.dlq_url = QueueUrlOf("dlq")]
        ELSE IF ~created.raised
        THEN [created EXCEPT !.dlq_url = QueueUrlOf("dlq")]
        ELSE created

\* _get_dlq_arn (lines 98-106): nothing is caught here
get_dlq_arn(P) ==
    LET ready == IF P.dlq_url = "none" THEN setup_dlq(P) ELSE Caught(P)
    IN  IF ready.raised THEN ready
        ELSE sqs_get_queue_attributes(ready, ready.dlq_url)

\* _configure_queue_dlq that applies the policy whatever the queue has
configure_queue_dlq_Overwrite(P) ==
    LET current == sqs_get_queue_attributes(P, P.queue_url)
        arn     == get_dlq_arn(current)
    IN  IF current.raised THEN Caught(current)
        ELSE IF arn.raised THEN Caught(arn)
        ELSE Caught(sqs_set_queue_attributes(arn, arn.queue_url,
                                             RedriveAttributes(arn.arn)))

\* _configure_queue_dlq (lines 108-139): every exception is caught and logged
configure_queue_dlq(P) ==
    LET current == sqs_get_queue_attributes(P, P.queue_url)
        arn     == get_dlq_arn(current)
    IN  IF current.raised THEN Caught(current)
        ELSE IF current.got.RedrivePolicy # NoPolicy THEN current
        ELSE IF arn.raised THEN Caught(arn)
        ELSE Caught(sqs_set_queue_attributes(arn, arn.queue_url,
                                             RedriveAttributes(arn.arn)))

\* the try block of _get_queue_url (lines 48-58)
ExistingQueuePath(P) ==
    LET dlq  == setup_dlq(P)
        main == sqs_get_queue_url(dlq, "main")
    IN  IF dlq.raised THEN dlq
        ELSE IF main.raised THEN main
        ELSE configure_queue_dlq([main EXCEPT !.queue_url = QueueUrlOf("main")])

\* the except block of _get_queue_url (lines 60-83): nothing is caught here
CreateQueuePath(P) ==
    LET dlq  == setup_dlq(P)
        arn  == get_dlq_arn(dlq)
        main == sqs_create_queue(arn, "main", RedriveAttributes(arn.arn))
    IN  IF dlq.raised THEN dlq
        ELSE IF arn.raised THEN arn
        ELSE IF main.raised THEN main
        ELSE [main EXCEPT !.queue_url = QueueUrlOf("main")]

\* a _get_queue_url that resolves the queue on every call
get_queue_url_NoCache(P) ==
    LET tried == ExistingQueuePath(P)
    IN  IF ~tried.raised THEN tried ELSE CreateQueuePath(tried)

\* _get_queue_url (lines 45-84)
get_queue_url(P) ==
    IF P.queue_url # "none" THEN P
    ELSE LET tried == ExistingQueuePath(P)
         IN  IF ~tried.raised THEN tried ELSE CreateQueuePath(tried)

\* the run that starts from the processor's fields and the service as it is
Provisioning(F) ==
    [dlq_url |-> dlq_url, queue_url |-> queue_url, sqs |-> sqs, log |-> <<>>,
     fail |-> F, raised |-> FALSE, arn |-> "", got |-> DefaultAttributes]

\* the states the queue service can be in when the processor starts
Services ==
    { [exists |-> [dlq |-> d, main |-> m],
       attrs |-> [dlq |-> DefaultAttributes, main |-> a]] :
        d \in BOOLEAN, m \in BOOLEAN,
        a \in { DefaultAttributes,
                RedriveAttributes(ArnOf("dlq")),
                Attributes(30, Policy("arn:other", 5)) } }

\* both queues there, the main queue bound to the DLQ by an earlier start
Provisioned ==
    [exists |-> [dlq |-> TRUE, main |-> TRUE],
     attrs |-> [dlq |-> DefaultAttributes,
                main |-> RedriveAttributes(ArnOf("dlq"))]]

(***************************************************************************)
(* Initial state: the processor constructed (lines 30-34), the queue       *)
(* holding MaxMsgs messages nobody has received yet, the store empty.      *)
(***************************************************************************)
\* nothing called yet.  calls: increment_event calls made; n, total: per
\* type, the calls that returned and the sum of their values; rejected: the
\* calls that raised; summed: updates of stats:sum:{t} since the key was last
\* deleted; begun, done: reset_stats calls; overlapped: an increment ran
\* between the SMEMBERS and the DEL of a reset; read: the type of the latest
\* get_event_stats
NoHistory ==
    [calls |-> 0, n |-> [t \in Types |-> 0], total |-> [t \in Types |-> 0],
     rejected |-> [t \in Types |-> 0], summed |-> [t \in Types |-> 0],
     begun |-> 0, done |-> 0, overlapped |-> FALSE, read |-> "none"]

\* no other client of the store is active
ClientsIdle ==
    /\ rpc = "idle"
    /\ reset_types = {}
    /\ stats = <<>>
    /\ hist = NoHistory

Init ==
    /\ pc = "wait_redis"
    /\ running = TRUE
    /\ queue_url = "none"
    /\ attempt = 0
    /\ q \in [Ids -> {[body |-> b, rc |-> 0, st |-> "visible"] : b \in Bodies}]
    /\ store = EmptyStore
    /\ messages = <<>>
    /\ idx = 1
    /\ processed_count = 0
    /\ ret = <<>>
    /\ calls = <<>>
    /\ applied = [id \in Ids |-> 0]
    /\ stopAt = [pc |-> "none", idx |-> 0, cycle |-> 0]
    /\ rcvAfterStop = 0
    /\ aborted = FALSE
    /\ failedInc = {}
    /\ failedDel = {}
    /\ cycles = 0
    /\ faults = 0
    /\ health = "none"
    /\ wait_time = 0
    /\ dlq_url = "none"
    /\ sqs = Provisioned
    /\ pcalls = <<>>
    /\ outages = 0
    /\ slept = FALSE
    /\ reply = "none"
    /\ ClientsIdle

\* _shutdown_handler (SIGINT or SIGTERM): may run between any two steps
Shutdown ==
    /\ running
    /\ pc \notin {"stopped", "exited"}
    /\ running' = FALSE
    /\ stopAt' = [pc |-> pc, idx |-> idx, cycle |-> cycles]
    /\ UNCHANGED clientVars
    /\ UNCHANGED <<aborted, failedInc, failedDel, pc, queue_url, attempt, q,
                   store, messages, idx, processed_count, ret, calls, applied,
                   rcvAfterStop, cycles, faults>>
    /\ UNCHANGED <<startVars, slept>>

\* run() going on to provisioning when the wait gave up
WaitForRedis_IgnoreResult ==
    /\ pc = "wait_redis"
    /\ \E answer \in StoreAnswers :
          LET up == ping(answer)
          IN  /\ health' = up
              /\ reply' = answer
              /\ attempt' = CASE up = "true"  -> 0
                              [] up = "false" -> attempt + 1
                              [] up = "raise" -> attempt
              /\ wait_time' = 0
              /\ pc' = CASE up = "true"  -> "get_queue_url"
                         [] up = "false" -> IF attempt + 1 < max_retries
                                            THEN "wait_redis" ELSE "get_queue_url"
                         [] up = "raise" -> "backoff"
    /\ UNCHANGED clientVars
    /\ UNCHANGED <<aborted, failedInc, failedDel, running, queue_url, q,
                   store, messages, idx, processed_count, ret, calls, applied,
                   stopAt, rcvAfterStop, cycles, faults, dlq_url, sqs, pcalls,
                   outages, slept>>

\* lines 158-162 and 295-297: one iteration of the for loop up to the result
\* of ping.  True returns; False raises nothing, so the loop goes straight to
\* its next iteration; an exception enters the except branch.  When the loop
\* is exhausted the function returns False and run() calls sys.exit(1).
WaitForRedis ==
    /\ pc = "wait_redis"
    /\ \E answer \in StoreAnswers :
          LET up == ping(answer)
          IN  /\ health' = up
              /\ reply' = answer
              /\ attempt' = CASE up = "true"  -> 0
                              [] up = "false" -> attempt + 1
                              [] up = "raise" -> attempt
              /\ wait_time' = 0
              /\ pc' = CASE up = "true"  -> "get_queue_url"
                         [] up = "false" -> IF attempt + 1 < max_retries
                                            THEN "wait_redis" ELSE "exited"
                         [] up = "raise" -> "backoff"
    /\ UNCHANGED clientVars
    /\ UNCHANGED <<aborted, failedInc, failedDel, running, queue_url, q,
                   store, messages, idx, processed_count, ret, calls, applied,
                   stopAt, rcvAfterStop, cycles, faults, dlq_url, sqs, pcalls,
                   outages, slept>>

\* lines 163-169: the except branch sleeps, then the loop goes on
Backoff ==
    /\ pc = "backoff"
    /\ wait_time' = WaitTime(attempt)
    /\ health' = "none"
    /\ reply' = "none"
    /\ attempt' = attempt + 1
    /\ pc' = IF attempt + 1 < max_retries THEN "wait_redis" ELSE "exited"
    /\ UNCHANGED clientVars
    /\ UNCHANGED <<aborted, failedInc, failedDel, running, queue_url, q,
                   store, messages, idx, processed_count, ret, calls, applied,
                   stopAt, rcvAfterStop, cycles, faults, dlq_url, sqs, pcalls,
                   outages, slept>>

\* line 300: _get_queue_url as called by run().  No step of it reads the
\* flag, so the whole call is one step.  F is where the queue service fails
\* in the sequence of its calls; an exception that leaves _get_queue_url
\* leaves run() and main() exits with status 1 (lines 355-357).
GetQueueUrl ==
    /\ pc = "get_queue_url"
    /\ \E F \in SUBSET CallSlots :
          LET P == get_queue_url(Provisioning(F))
          IN  /\ Cardinality(F) <= outages
              /\ \A k \in F : k <= Len(P.log)
              /\ dlq_url' = P.dlq_url
              /\ queue_url' = P.queue_url
              /\ sqs' = P.sqs
              /\ pcalls' = P.log
              /\ pc' = IF P.raised THEN "exited" ELSE "loop_check"
    /\ outages' = 0
    /\ UNCHANGED clientVars
    /\ UNCHANGED <<aborted, failedInc, failedDel, running, attempt, q, store,
                   messages, idx, processed_count, ret, calls, applied,
                   stopAt, rcvAfterStop, cycles, faults, health, wait_time,
                   slept, reply>>

\* the while loop re-entered without reading the flag
LoopCheck_IgnoreFlag ==
    /\ pc = "loop_check"
    /\ cycles < MaxCycles
    /\ pc' = "receive"
    /\ cycles' = cycles + 1
    /\ UNCHANGED clientVars
    /\ UNCHANGED <<aborted, failedInc, failedDel, running, queue_url, attempt,
                   q, store, messages, idx, processed_count, ret, calls,
                   applied, stopAt, rcvAfterStop, faults>>
    /\ UNCHANGED <<startVars, slept>>

\* line 310: while self.running
LoopCheck ==
    /\ pc = "loop_check"
    /\ IF running
       THEN cycles < MaxCycles /\ pc' = "receive" /\ cycles' = cycles + 1
       ELSE pc' = "stopped" /\ cycles' = cycles
    /\ UNCHANGED clientVars
    /\ UNCHANGED <<aborted, failedInc, failedDel, running, queue_url, attempt,
                   q, store, messages, idx, processed_count, ret, calls,
                   applied, stopAt, rcvAfterStop, faults>>
    /\ UNCHANGED <<startVars, slept>>

\* run() that never idles
AfterReturn_NeverSleep(n) == "loop_check"

\* run() that idles after every cycle
AfterReturn_AlwaysSleep(n) == "sleep"

\* where run() goes with the value process_messages returned (lines 312-316)
AfterReturn(n) == IF n = 0 THEN "sleep" ELSE "loop_check"

\* a queue service that never moves a message to the dead-letter queue
Redrive_Never(S) == {}

\* the main queue's RedrivePolicy at work (set at lines 121-129): of the
\* messages S a receive would return, those already received maxReceiveCount
\* times are moved to the dead-letter queue instead of being delivered
Redrive(S) ==
    LET policy == sqs.attrs["main"].RedrivePolicy
    IN  IF policy = NoPolicy THEN {}
        ELSE {id \in S : q[id].rc >= policy.maxReceiveCount}

\* lines 176-194: receive_message.  The queue service hands out messages that
\* are visible: never received, or received and not deleted before their
\* visibility timeout expired (the expiry is observable only here, so it is
\* part of this step).  It counts the delivery; a message already received
\* as often as the redrive policy allows goes to the dead-letter queue
\* instead.
\* the handler of the whole cycle letting the exception through
CycleError_Unhandled == <<>>

\* the handler of the whole cycle reporting the failure as -1
CycleError_Negative == <<-1>>

\* lines 286-288: except Exception: log and return 0
CycleError == <<0>>

Receive ==
    /\ pc = "receive"
    /\ rcvAfterStop' = IF running THEN rcvAfterStop ELSE rcvAfterStop + 1
    /\ idx' = 1
    /\ processed_count' = 0
    /\ \/ /\ faults < MaxFaults          \* the call raises: lines 286-288
          /\ faults' = faults + 1
          /\ calls' = <<Call("receive_message", NoHandle, FALSE)>>
          /\ messages' = <<>>
          /\ ret' = CycleError
          /\ pc' = "sleep"
          /\ q' = q
          /\ aborted' = TRUE
       \/ \E S \in SUBSET {id \in DOMAIN q : q[id].st \in {"visible", "inflight"}},
             withCount \in BOOLEAN :
             LET dead == Redrive(S)
                 live == S \ dead
             IN  /\ Cardinality(live) <= MAX_MESSAGES_PER_BATCH
                 /\ live = {} => withCount
                 /\ q' = [id \in DOMAIN q |->
                            IF id \in dead THEN [q[id] EXCEPT !.st = "dlq"]
                            ELSE IF id \in live
                            THEN [q[id] EXCEPT !.st = "inflight", !.rc = @ + 1]
                            ELSE q[id]]
                 /\ calls' = <<Call("receive_message", NoHandle, TRUE)>>
                 /\ messages' = SeqOf(live, withCount)
                 /\ faults' = faults
                 /\ aborted' = FALSE
                 /\ IF live = {}
                    THEN ret' = <<0>> /\ pc' = "sleep"        \* lines 187-189
                    ELSE ret' = <<>> /\ pc' = "for_check"
    /\ UNCHANGED clientVars
    /\ UNCHANGED <<running, queue_url, attempt, store, applied, stopAt,
                   cycles, failedInc, failedDel>>
    /\ slept' = FALSE
    /\ UNCHANGED startVars

\* the for loop without its shutdown check
ForCheck_IgnoreRunning ==
    /\ pc = "for_check"
    /\ IF idx <= Len(messages)
       THEN pc' = "process" /\ ret' = ret
       ELSE ret' = <<processed_count>> /\ pc' = AfterReturn(processed_count)
    /\ UNCHANGED clientVars
    /\ UNCHANGED <<aborted, failedInc, failedDel, running, queue_url, attempt,
                   q, store, messages, idx, processed_count, calls, applied,
                   stopAt, rcvAfterStop, cycles, faults>>
    /\ UNCHANGED <<startVars, slept>>

\* lines 196-199 and 281-284: the next message, or the end of the loop
\* the loop testing the flag only from its second pass on
ForCheck_CheckAfterFirst ==
    /\ pc = "for_check"
    /\ IF idx <= Len(messages) /\ (running \/ idx = 1)
       THEN pc' = "process" /\ ret' = ret
       ELSE ret' = <<processed_count>> /\ pc' = AfterReturn(processed_count)
    /\ UNCHANGED clientVars
    /\ UNCHANGED <<aborted, failedInc, failedDel, running, queue_url, attempt,
                   q, store, messages, idx, processed_count, calls, applied,
                   stopAt, rcvAfterStop, cycles, faults>>
    /\ UNCHANGED <<startVars, slept>>

ForCheck ==
    /\ pc = "for_check"
    /\ IF idx <= Len(messages) /\ running
       THEN pc' = "process" /\ ret' = ret
       ELSE ret' = <<processed_count>> /\ pc' = AfterReturn(processed_count)
    /\ UNCHANGED clientVars
    /\ UNCHANGED <<aborted, failedInc, failedDel, running, queue_url, attempt,
                   q, store, messages, idx, processed_count, calls, applied,
                   stopAt, rcvAfterStop, cycles, faults>>
    /\ UNCHANGED <<startVars, slept>>

\* lines 201-279 for messages[idx], and lines 286-288 when it raises
\* the loop handing out the batch back to front
Current_Reversed(msgs, i) == msgs[Len(msgs) + 1 - i]

\* line 196: the message the i-th pass of `for message in messages` handles
Current(msgs, i) == msgs[i]

Process ==
    /\ pc = "process"
    /\ \E visOk, incOk, delOk \in BOOLEAN :
          LET m  == Current(messages, idx)
              b  == q[m.id].body
              ev == EventOf(b)
              r  == HandleMessage(m, b, visOk, incOk, delOk)
          IN  /\ faults + Failed(r.calls) <= MaxFaults
              /\ faults' = faults + Failed(r.calls)
              /\ calls' = calls \o r.calls
              /\ store' = IF r.applied
                          THEN increment_event(store, ev.type, ev.value)
                          ELSE store
              /\ applied' = IF r.applied
                            THEN [applied EXCEPT ![m.id] = @ + 1]
                            ELSE applied
              /\ q' = IF r.deleted
                      THEN [q EXCEPT ![m.id].st = "deleted"]
                      ELSE q
              /\ aborted' = r.raised
              /\ failedInc' = IF \E i \in 1..Len(r.calls) :
                                    r.calls[i].op = "increment_event" /\ ~r.calls[i].ok
                               THEN failedInc \cup {m.id} ELSE failedInc
              /\ failedDel' = IF r.applied /\ ~r.deleted
                               THEN failedDel \cup {m.id} ELSE failedDel
              /\ IF r.raised
                 THEN /\ ret' = CycleError
                      /\ pc' = "sleep"
                      /\ UNCHANGED <<idx, processed_count>>
                 ELSE /\ ret' = ret
                      /\ pc' = "for_check"
                      /\ idx' = idx + 1
                      /\ processed_count' = processed_count + r.counted
    /\ UNCHANGED clientVars
    /\ UNCHANGED <<running, queue_url, attempt, messages, stopAt,
                   rcvAfterStop, cycles>>
    /\ UNCHANGED <<startVars, slept>>

\* a run() that goes back to waiting for the store after an idle cycle
Sleep_Reconnect ==
    /\ pc = "sleep"
    /\ pc' = "wait_redis"
    /\ UNCHANGED clientVars
    /\ UNCHANGED <<aborted, failedInc, failedDel, running, queue_url, attempt,
                   q, store, messages, idx, processed_count, ret, calls,
                   applied, stopAt, rcvAfterStop, cycles, faults>>
    /\ slept' = TRUE
    /\ UNCHANGED startVars

\* lines 316 and 320: asyncio.sleep(PROCESSOR_SLEEP_INTERVAL)
Sleep ==
    /\ pc = "sleep"
    /\ pc' = "loop_check"
    /\ UNCHANGED clientVars
    /\ UNCHANGED <<aborted, failedInc, failedDel, running, queue_url, attempt,
                   q, store, messages, idx, processed_count, ret, calls,
                   applied, stopAt, rcvAfterStop, cycles, faults>>
    /\ slept' = TRUE
    /\ UNCHANGED startVars

ProcNext ==
    \/ WaitForRedis
    \/ Backoff
    \/ GetQueueUrl
    \/ LoopCheck
    \/ Receive
    \/ ForCheck
    \/ Process
    \/ Sleep

Next ==
    \/ ProcNext
    \/ Shutdown

Spec == Init /\ [][Next]_vars

\* the loop is sequential code: as long as its calls return, it takes its
\* next step
FairSpec == Spec /\ WF_vars(ProcNext)

(***************************************************************************)
(* Start-up on its own: the processor started against every state of the   *)
(* queue service, with the service failing up to MaxOutages of the         *)
(* provisioning calls, and an empty main queue, so that the batch cycles   *)
(* that follow receive nothing.                                            *)
(***************************************************************************)
StartInit ==
    /\ pc = "wait_redis"
    /\ running = TRUE
    /\ queue_url = "none"
    /\ attempt = 0
    /\ q = [id \in {} |-> [body |-> NotJson, rc |-> 0, st |-> "visible"]]
    /\ store = EmptyStore
    /\ messages = <<>>
    /\ idx = 1
    /\ processed_count = 0
    /\ ret = <<>>
    /\ calls = <<>>
    /\ applied = [id \in Ids |-> 0]
    /\ stopAt = [pc |-> "none", idx |-> 0, cycle |-> 0]
    /\ rcvAfterStop = 0
    /\ aborted = FALSE
    /\ failedInc = {}
    /\ failedDel = {}
    /\ cycles = 0
    /\ faults = 0
    /\ health = "none"
    /\ wait_time = 0
    /\ dlq_url = "none"
    /\ sqs \in {S \in Services :
                  ~S.exists["main"] => S.attrs["main"] = DefaultAttributes}
    /\ pcalls = <<>>
    /\ outages = MaxOutages
    /\ slept = FALSE
    /\ reply = "none"
    /\ ClientsIdle

StartNext ==
    \/ WaitForRedis
    \/ Backoff
    \/ GetQueueUrl
    \/ LoopCheck
    \/ Receive
    \/ Sleep
    \/ Shutdown

StartSpec == StartInit /\ [][StartNext]_vars

(***************************************************************************)
(* The processor started on a queue that holds a message left over by an   *)
(* earlier run: received up to SQS_MAX_RECEIVE_COUNT - 1 times and never   *)
(* aggregated.  The main queue is bound to the DLQ by the processor, or    *)
(* carries a redrive policy of someone else, which provisioning keeps.     *)
(***************************************************************************)
Leftover ==
    {[body |-> b, rc |-> n, st |-> IF n = 0 THEN "visible" ELSE "inflight"] :
        b \in Bodies, n \in 0..(SQS_MAX_RECEIVE_COUNT - 1)}

RedriveInit ==
    /\ pc = "wait_redis"
    /\ running = TRUE
    /\ queue_url = "none"
    /\ attempt = 0
    /\ q \in [{1} -> Leftover]
    /\ store = EmptyStore
    /\ messages = <<>>
    /\ idx = 1
    /\ processed_count = 0
    /\ ret = <<>>
    /\ calls = <<>>
    /\ applied = [id \in Ids |-> 0]
    /\ stopAt = [pc |-> "none", idx |-> 0, cycle |-> 0]
    /\ rcvAfterStop = 0
    /\ aborted = FALSE
    /\ failedInc = {}
    /\ failedDel = {}
    /\ cycles = 0
    /\ faults = 0
    /\ health = "none"
    /\ wait_time = 0
    /\ dlq_url = "none"
    /\ sqs \in {Provisioned,
                [Provisioned EXCEPT
                    !.attrs["main"] = Attributes(30, Policy("arn:other", 5))]}
    /\ pcalls = <<>>
    /\ outages = 0
    /\ slept = FALSE
    /\ reply = "none"
    /\ ClientsIdle

RedriveSpec == RedriveInit /\ [][Next]_vars

(***************************************************************************)
(* The store and its clients: the processors calling increment_event, the  *)
(* API reading statistics and resetting them.  Every command, and every    *)
(* MULTI/EXEC transaction, is one step of the server; a client method that *)
(* sends two of them takes two steps, and other clients run in between.    *)
(***************************************************************************)
procVars == <<pc, running, queue_url, attempt, q, messages, idx,
              processed_count, ret, calls, applied, stopAt, rcvAfterStop,
              aborted, failedInc, failedDel, cycles, faults, slept>>

\* the EventStats a reader can hold before it has read the store
\* (EventStats() has count = 0.0 and total = 0.0; both fields are free)
EventStatsInputs ==
    {<<[count |-> c, total |-> t]>> : c \in 0..1, t \in {-1, 0, 2}}

StoreInit ==
    /\ pc = "stopped"
    /\ running = FALSE
    /\ queue_url = "none"
    /\ attempt = 0
    /\ q = [id \in {} |-> [body |-> NotJson, rc |-> 0, st |-> "visible"]]
    /\ store = EmptyStore
    /\ messages = <<>>
    /\ idx = 1
    /\ processed_count = 0
    /\ ret = <<>>
    /\ calls = <<>>
    /\ applied = [id \in Ids |-> 0]
    /\ stopAt = [pc |-> "none", idx |-> 0, cycle |-> 0]
    /\ rcvAfterStop = 0
    /\ aborted = FALSE
    /\ failedInc = {}
    /\ failedDel = {}
    /\ cycles = 0
    /\ faults = 0
    /\ health = "none"
    /\ wait_time = 0
    /\ dlq_url = "none"
    /\ sqs = Provisioned
    /\ pcalls = <<>>
    /\ outages = 0
    /\ slept = FALSE
    /\ reply = "none"
    /\ rpc = "idle"
    /\ reset_types = {}
    /\ stats \in EventStatsInputs \cup {<<>>}
    /\ hist = NoHistory

\* a client calling increment_event(event_type, value)
Increment ==
    /\ hist.calls < MaxIncs
    /\ \E event_type \in Types, value \in Values :
          LET r == execute_increment(store, event_type, value)
          IN  /\ store' = r.store
              /\ hist' = IF r.raised
                         THEN [hist EXCEPT !.calls = @ + 1,
                                           !.rejected[event_type] = @ + 1,
                                           !.overlapped = @ \/ rpc = "delete"]
                         ELSE [hist EXCEPT !.calls = @ + 1,
                                           !.n[event_type] = @ + 1,
                                           !.total[event_type] = @ + value.n,
                                           !.summed[event_type] = @ + 1,
                                           !.overlapped = @ \/ rpc = "delete"]
    /\ UNCHANGED <<rpc, reset_types, stats>>
    /\ UNCHANGED <<procVars, startVars>>

\* a client calling get_event_stats(event_type)
GetEventStats ==
    /\ \E event_type \in Types :
          /\ stats' = get_event_stats(store, event_type)
          /\ hist' = [hist EXCEPT !.read = event_type]
    /\ UNCHANGED <<store, rpc, reset_types>>
    /\ UNCHANGED <<procVars, startVars>>

\* reset_stats, line 91: event_types = self.get_all_event_types().  With no
\* type registered the call is over (line 93)
ResetRead ==
    /\ rpc = "idle"
    /\ hist.begun < MaxResets
    /\ reset_types' = get_all_event_types(store)
    /\ rpc' = IF reset_types' # {} THEN "delete" ELSE "idle"
    /\ hist' = [hist EXCEPT !.begun = @ + 1,
                            !.done = IF reset_types' # {} THEN @ ELSE @ + 1]
    /\ UNCHANGED <<store, stats>>
    /\ UNCHANGED <<procVars, startVars>>

\* reset_stats, lines 94-104: one DEL of the keys of the types read
ResetDelete ==
    /\ rpc = "delete"
    /\ store' = delete(store, keys_to_delete(reset_types))
    /\ rpc' = "idle"
    /\ reset_types' = {}
    /\ hist' = [hist EXCEPT
                  !.done = @ + 1,
                  !.summed = [t \in Types |->
                                IF t \in reset_types THEN 0 ELSE @[t]]]
    /\ UNCHANGED stats
    /\ UNCHANGED <<procVars, startVars>>

StoreNext ==
    \/ Increment
    \/ GetEventStats
    \/ ResetRead
    \/ ResetDelete

StoreSpec == StoreInit /\ [][StoreNext]_vars

(***************************************************************************)
(* Vocabulary of the properties.  Bodies are classified from their text,   *)
(* independently of the operators that model the code.                     *)
(***************************************************************************)
NumRange == 0..50

Malformed(b) == ~b.wf

IsObject(b) == b.wf /\ b.doc.t = "object"

NonObjectJson(b) == b.wf /\ b.doc.t # "object"

MissingType(b) == IsObject(b) /\ "type" \notin DOMAIN b.doc.f

MissingValue(b) == IsObject(b) /\ "value" \notin DOMAIN b.doc.f

NumericString(s) == \E n \in NumRange : ToString(n) = s

NonNumericValue(b) ==
    /\ IsObject(b)
    /\ "value" \in DOMAIN b.doc.f
    /\ b.doc.f["value"].t # "num"
    /\ ~(b.doc.f["value"].t = "str" /\ NumericString(b.doc.f["value"].s))

NonStringType(b) ==
    IsObject(b) /\ "type" \in DOMAIN b.doc.f /\ b.doc.f["type"].t # "str"

SchemaInvalid(b) ==
    MissingType(b) \/ MissingValue(b) \/ NonNumericValue(b) \/ NonStringType(b)

ValidBody(b) == IsObject(b) /\ ~SchemaInvalid(b)

TypeOf(b) == b.doc.f["type"].s

ValueOf(b) ==
    IF b.doc.f["value"].t = "num" THEN b.doc.f["value"].n
    ELSE CHOOSE n \in NumRange : ToString(n) = b.doc.f["value"].s

BodyOf(m) == q[m.id].body

CallIdxIn(cs, op, h) == {i \in 1..Len(cs) : cs[i].op = op /\ cs[i].h = h}

CallIdx(op, h) == CallIdxIn(calls, op, h)

OkIdx(op, h) == {i \in CallIdx(op, h) : calls[i].ok}

FailIdx(op, h) == {i \in CallIdx(op, h) : ~calls[i].ok}

\* message j of the batch has been handled by the for loop
Examined(j) == j < idx \/ (j = idx /\ aborted)

\* process_messages has returned and the next cycle has not started
CycleDone == ret # <<>>

\* a step of the for-loop body on messages[idx]
ProcessStep == pc = "process" /\ pc' # "process"

(***************************************************************************)
(* C1: a message that validated is deleted only after increment_event has  *)
(* returned without error for that delivery; when increment_event raises,  *)
(* no delete_message call is issued for it in that cycle, whatever its     *)
(* receive count, and it stays on the queue.                               *)
(***************************************************************************)
C1_DeleteOnlyAfterIncrement ==
    \A j \in 1..Len(messages) :
        LET m == messages[j]
        IN  ValidBody(BodyOf(m)) =>
              /\ \A i \in CallIdx("delete_message", m.h) :
                    \E k \in OkIdx("increment_event", m.h) : k < i
              /\ FailIdx("increment_event", m.h) # {} =>
                    /\ CallIdx("delete_message", m.h) = {}
                    /\ q[m.id].st = "inflight"

C1_Witness ==
    /\ CycleDone
    /\ \E j \in 1..Len(messages) :
          /\ messages[j].rc = SQS_MAX_RECEIVE_COUNT - 1
          /\ ValidBody(BodyOf(messages[j]))
          /\ FailIdx("increment_event", messages[j].h) # {}
          /\ q[messages[j].id].st = "inflight"

C3_NonObjectIsPoison ==
    \A j \in 1..Len(messages) :
        LET m == messages[j]
        IN  (NonObjectJson(BodyOf(m)) /\ Examined(j) /\ faults = 0) =>
              /\ q[m.id].st = "deleted"
              /\ applied[m.id] = 0
              /\ ~aborted

(***************************************************************************)
(* C4: processing a valid message of type t and value v while the store    *)
(* and queue calls succeed adds exactly 1 to count[t] and v to sum[t],     *)
(* changes no other type's aggregate, and issues exactly one               *)
(* delete_message call for the message.                                    *)
(***************************************************************************)
C4_ValidMessageAggregatedOnce ==
    [][ (ProcessStep /\ ValidBody(BodyOf(messages[idx])) /\ faults' = faults) =>
          LET m == messages[idx]
              t == TypeOf(BodyOf(m))
              v == ValueOf(BodyOf(m))
          IN  /\ store'.count[t] = store.count[t] + 1
              /\ store'.sum[t] = store.sum[t] + v
              /\ \A u \in Types \ {t} :
                    /\ store'.count[u] = store.count[u]
                    /\ store'.sum[u] = store.sum[u]
              /\ Cardinality(CallIdxIn(calls', "delete_message", m.h)) = 1
              /\ q'[m.id].st = "deleted" ]_vars

C4_Witness ==
    /\ faults = 0
    /\ \E id \in Ids :
          /\ ValidBody(q[id].body)
          /\ ValueOf(q[id].body) = 2
          /\ applied[id] = 1
          /\ q[id].st = "deleted"
          /\ store.count[TypeOf(q[id].body)] = 1
          /\ store.sum[TypeOf(q[id].body)] = 2

RECURSIVE SumOver(_, _)
SumOver(S, f) ==
    IF S = {} THEN 0
    ELSE LET x == CHOOSE y \in S : TRUE IN f[x] + SumOver(S \ {x}, f)

OfType(t) == {id \in Ids : ValidBody(q[id].body) /\ TypeOf(q[id].body) = t}

Accounted ==
    \A t \in Types :
        /\ store.count[t] = SumOver(OfType(t), applied)
        /\ store.sum[t] =
              SumOver(OfType(t), [id \in OfType(t) |-> applied[id] * ValueOf(q[id].body)])

IncrementFailedInStep ==
    /\ ProcessStep
    /\ \E i \in (Len(calls) + 1)..Len(calls') :
          calls'[i].op = "increment_event" /\ ~calls'[i].ok

ValidPositions == {j \in 1..Len(messages) : ValidBody(BodyOf(messages[j]))}

ProcessedPositions ==
    {j \in 1..Len(messages) :
        /\ OkIdx("increment_event", messages[j].h) # {}
        /\ OkIdx("delete_message", messages[j].h) # {}}

C8_ReturnCountsProcessed ==
    ( /\ CycleDone
      /\ \A j \in 1..Len(messages) : ~NonObjectJson(BodyOf(messages[j])) )
    => ret = <<Cardinality(ProcessedPositions)>>

(***************************************************************************)
(* C9: when running is cleared while message i of a batch is being         *)
(* processed, message i is completed (handled by the loop: incremented,    *)
(* deleted and counted when it is valid and its calls succeed), no call of *)
(* any kind is issued for a later message, which stays in flight, and the  *)
(* value returned counts only messages up to i.  Cleared between two       *)
(* messages, the same holds from the next message on.                      *)
(***************************************************************************)
FirstUntouched ==
    IF stopAt.pc = "process" THEN stopAt.idx + 1 ELSE stopAt.idx

StoppedInBatch ==
    /\ stopAt.pc \in {"process", "for_check"}
    /\ stopAt.cycle = cycles
    /\ CycleDone

C9_ShutdownMidBatch ==
    StoppedInBatch =>
      /\ \A j \in FirstUntouched..Len(messages) :
            /\ \A i \in 1..Len(calls) : calls[i].h # messages[j].h
            /\ q[messages[j].id].st = "inflight"
            /\ q[messages[j].id].rc = messages[j].rc
      /\ stopAt.pc = "process" => Examined(stopAt.idx)
      /\ (stopAt.pc = "process" /\ ValidBody(BodyOf(messages[stopAt.idx]))
             /\ \A i \in 1..Len(calls) : calls[i].ok) =>
            /\ stopAt.idx \in ProcessedPositions
            /\ q[messages[stopAt.idx].id].st = "deleted"
      /\ ~aborted =>
            ret = <<Cardinality(ProcessedPositions \cap 1..(FirstUntouched - 1))>>
      /\ ret[1] <= FirstUntouched - 1

C9_Witness ==
    /\ StoppedInBatch
    /\ stopAt.pc = "process"
    /\ stopAt.idx = 1
    /\ Len(messages) = 2
    /\ \A j \in 1..2 : ValidBody(BodyOf(messages[j]))
    /\ ret = <<1>>
    /\ q[messages[1].id].st = "deleted"
    /\ q[messages[2].id].st = "inflight"
    /\ applied[messages[2].id] = 0

(***************************************************************************)
(* C10 as stated: once running is cleared while the loop is running, run() *)
(* eventually returns; no receive_message call is started after the flag   *)
(* was cleared; nothing is called after the loop has exited.               *)
(***************************************************************************)
LoopPcs == {"loop_check", "receive", "for_check", "process", "sleep"}

StopLeadsToStopped == (~running /\ pc \in LoopPcs) ~> (pc = "stopped")

NothingAfterExit ==
    [][(pc \in {"stopped", "exited"}) =>
          UNCHANGED <<calls, q, store, messages, ret, applied>>]_vars

C10_NoReceiveAfterStop ==
    /\ StopLeadsToStopped
    /\ [](rcvAfterStop = 0)
    /\ NothingAfterExit

(***************************************************************************)
(* C10 amended: once running is cleared while the loop is running, run()   *)
(* eventually returns; at most one receive_message call is started after   *)
(* the flag was cleared, and only when the flag was cleared between the    *)
(* loop's check of it and the call; no message of that batch is examined,  *)
(* and nothing is called after the loop has exited.                        *)
(***************************************************************************)
C10_AtMostOneReceiveAfterStop ==
    /\ StopLeadsToStopped
    /\ [](/\ rcvAfterStop <= 1
          /\ rcvAfterStop = 1 =>
                /\ stopAt.pc = "receive"
                /\ Len(calls) = 1
                /\ idx = 1
                /\ pc \notin {"process", "receive"})
    /\ NothingAfterExit

C10_Witness ==
    /\ rcvAfterStop = 1
    /\ pc = "stopped"
    /\ Len(messages) = 2
    /\ \A j \in 1..2 : q[messages[j].id].st = "inflight"

(***************************************************************************)
(* C11: the start-up wait is bounded.  Every health-check is made in one   *)
(* of the max_retries iterations of the loop and a failed one ends its     *)
(* iteration; the first successful one ends the wait and run() goes on to  *)
(* provisioning; when all max_retries fail, the process has exited with    *)
(* status 1 (pc = "exited") and no queue call was ever made.               *)
(***************************************************************************)
WaitPcs == {"wait_redis", "backoff"}

\* a health-check: the step run() takes from the top of the retry loop
PingStep == pc = "wait_redis" /\ <<pc, attempt>>' # <<pc, attempt>>

BackoffStep == pc = "backoff" /\ pc' # "backoff"

NoQueueCall == pcalls = <<>> /\ calls = <<>> /\ cycles = 0

C11_BoundedStartupWait ==
    /\ [](pc \in WaitPcs => attempt < max_retries)
    /\ [][PingStep =>
            /\ health' = "true" => pc' = "get_queue_url"
            /\ health' = "false" => attempt' = attempt + 1
            /\ health' = "raise" => pc' = "backoff" /\ attempt' = attempt]_vars
    /\ [][BackoffStep => attempt' = attempt + 1]_vars
    /\ [](health = "true" => pc \notin WaitPcs)
    /\ [](pc \in WaitPcs => NoQueueCall)
    /\ [](attempt = max_retries =>
             /\ pc = "exited"
             /\ NoQueueCall
             /\ queue_url = "none"
             /\ dlq_url = "none")

C11_Witness ==
    /\ pc = "exited"
    /\ attempt = max_retries
    /\ health = "false"
    /\ NoQueueCall

(***************************************************************************)
(* C12: every failed health-check, whether ping raised or returned false,  *)
(* is followed by a wait before the next health-check, and the wait after  *)
(* the failure of iteration n is min(0.1 * 2^n, 5) seconds.                *)
(***************************************************************************)
C12_BackoffAfterEveryFailure ==
    /\ [][PingStep => health \notin {"false", "raise"}]_vars
    /\ [][BackoffStep =>
            wait_time' = (IF attempt >= 6 THEN 50 ELSE 2^attempt)]_vars

(***************************************************************************)
(* C13 as stated: while running is true the loop is never left on an       *)
(* error, and a batch cycle in which any call raised (receive, delete,     *)
(* visibility or store) is followed by the idle sleep before the next      *)
(* receive.                                                                *)
(***************************************************************************)
\* a step that takes run() out of its while loop
LeavesLoop == pc \in LoopPcs /\ pc' \notin LoopPcs

\* some call of the latest batch cycle raised
CycleHadError == \E i \in 1..Len(calls) : ~calls[i].ok

\* the cycle ended in the handler of lines 286-288 or counted nothing
CycleGaveZero == aborted \/ ret = <<0>>

LoopSurvivesErrors ==
    /\ [][LeavesLoop => (~running /\ pc = "loop_check" /\ pc' = "stopped")]_vars
    /\ [][(pc \in LoopPcs /\ faults' > faults) =>
             pc' \in {"sleep", "for_check"}]_vars

C13_EveryErrorThenSleep ==
    /\ LoopSurvivesErrors
    /\ []((pc = "receive" /\ CycleHadError) => slept)

(***************************************************************************)
(* C13 amended: while running is true the loop is never left on an error:  *)
(* every error of a batch cycle is caught and the loop goes on.  An error  *)
(* that ends the cycle (it reaches the handler of lines 286-288) is        *)
(* followed by the idle sleep; after a cycle whose errors were caught per  *)
(* message the idle sleep is made exactly when the cycle counted nothing.  *)
(***************************************************************************)
C13_ErrorsNeverEndLoop ==
    /\ LoopSurvivesErrors
    /\ []((pc = "receive" /\ CycleHadError) => (slept <=> CycleGaveZero))
    /\ []((pc = "receive" /\ aborted) => (slept /\ ret = <<0>>))

C13_Witness ==
    /\ pc = "receive"
    /\ running
    /\ CycleHadError
    /\ ~aborted
    /\ ret = <<1>>
    /\ ~slept

(***************************************************************************)
(* C15: the idle sleep is made after a batch cycle exactly when the cycle  *)
(* returned 0; after a cycle that processed at least one message the next  *)
(* receive is issued with no sleep in between.                             *)
(***************************************************************************)
\* process_messages returns to run()
CyclePcs == {"receive", "for_check", "process"}

CycleReturns == pc \in CyclePcs /\ pc' \notin CyclePcs

C15_SleepIffNothingProcessed ==
    /\ [][CycleReturns =>
             /\ ret' # <<>>
             /\ pc' = (IF ret'[1] = 0 THEN "sleep" ELSE "loop_check")]_vars
    /\ [](pc = "sleep" => ret = <<0>>)
    /\ []((pc = "receive" /\ cycles > 1) => (slept <=> ret = <<0>>))

C15_Witness ==
    /\ pc = "receive"
    /\ cycles = 3
    /\ ret = <<2>>
    /\ ~slept
    /\ faults = 0

(***************************************************************************)
(* C16: for every message the loop has examined whose receive-count        *)
(* attribute is above 1, one change_message_visibility call was issued     *)
(* with its receipt handle and the full visibility timeout, before every   *)
(* other call made for the message; for a message whose attribute is 1 or  *)
(* missing no visibility call is issued.                                   *)
(***************************************************************************)
Redelivered(m) == m.arc # <<>> /\ m.arc[1] > 1

C16_VisibilityExtendedOnRetry ==
    \A j \in 1..Len(messages) :
        LET m   == messages[j]
            vis == CallIdx("change_message_visibility", m.h)
        IN  /\ (Examined(j) /\ Redelivered(m)) =>
                  /\ Cardinality(vis) = 1
                  /\ \A v \in vis :
                        /\ calls[v].value = SQS_VISIBILITY_TIMEOUT
                        /\ \A i \in 1..Len(calls) :
                              (calls[i].h = m.h /\ i # v) => v < i
            /\ ~Redelivered(m) => vis = {}
            /\ ~Examined(j) => vis = {}

C16_Witness ==
    /\ CycleDone
    /\ \E j \in 1..Len(messages) :
          LET m == messages[j]
          IN  /\ m.arc = <<2>>
              /\ ValidBody(BodyOf(m))
              /\ \E v \in FailIdx("change_message_visibility", m.h) :
                 \E i \in OkIdx("increment_event", m.h) :
                 \E d \in OkIdx("delete_message", m.h) : v < i /\ i < d

(***************************************************************************)
(* Vocabulary of the provisioning properties: the calls of pcalls.         *)
(***************************************************************************)
PIdx(op, name) ==
    {i \in 1..Len(pcalls) : pcalls[i].op = op /\ pcalls[i].queue = name}

POk(op, name) == {i \in PIdx(op, name) : pcalls[i].ok}

\* the DLQ was found or created by call i
DlqResolvedAt(i) ==
    i \in POk("get_queue_url", "dlq") \cup POk("create_queue", "dlq")

\* call i carries a redrive policy
BindsAt(i) ==
    /\ pcalls[i].op \in {"create_queue", "set_queue_attributes"}
    /\ pcalls[i].attrs.RedrivePolicy # NoPolicy

\* _get_queue_url as called by run()
ProvisionStep == pc = "get_queue_url" /\ pc' # "get_queue_url"

(***************************************************************************)
(* C14: the store being unreachable is the only failure that ends the      *)
(* process: it exits only from the exhausted start-up wait, and run()      *)
(* otherwise ends only after a shutdown request.                           *)
(***************************************************************************)
C14_OnlyStoreFailureIsFatal ==
    /\ pc = "exited" => (attempt = max_retries /\ pcalls = <<>>)
    /\ pc = "stopped" => ~running

(***************************************************************************)
(* C17: when the only calls of provisioning that raised are queue look-ups *)
(* by name, the resolution of the DLQ ARN and the application of queue     *)
(* attributes, _get_queue_url returns with queue_url set and the loop is   *)
(* reached, on the existing-queue path and on the create-queue path.       *)
(***************************************************************************)
ArnOrAttributeError(c) ==
    /\ ~c.ok
    /\ \/ c.op = "get_queue_attributes"
       \/ c.op = "set_queue_attributes"

C17_ArnAndAttributeErrorsNonFatal ==
    ( /\ \E i \in 1..Len(pcalls) : ArnOrAttributeError(pcalls[i])
      /\ \A i \in 1..Len(pcalls) :
            ~pcalls[i].ok =>
               (pcalls[i].op = "get_queue_url" \/ ArnOrAttributeError(pcalls[i])) )
    => (pc # "exited" /\ queue_url = QueueUrlOf("main"))

(***************************************************************************)
(* C18: _setup_dlq is idempotent.  In every provisioning run, create_queue *)
(* is called for the DLQ only right after a look-up of the DLQ that        *)
(* failed, never after one that found it, and the DLQ is brought into      *)
(* existence at most once; from every state, with the service failing      *)
(* anywhere, two calls of _setup_dlq in a row that both return leave the   *)
(* dlq_url and the service as the first one left them, and the second      *)
(* creates nothing.                                                        *)
(***************************************************************************)
Made(log) ==
    {i \in 1..Len(log) :
        log[i].op = "create_queue" /\ log[i].queue = "dlq" /\ log[i].made}

SetupTwice(F) ==
    LET once  == setup_dlq(Provisioning(F))
        twice == setup_dlq(once)
    IN  /\ Cardinality(Made(twice.log)) <= 1
        /\ ~once.raised => once.dlq_url = QueueUrlOf("dlq")
        /\ (~once.raised /\ ~twice.raised) =>
              /\ twice.dlq_url = once.dlq_url
              /\ twice.sqs = once.sqs
              /\ Made(twice.log) = Made(once.log)

C18_SetupDlqIdempotent ==
    /\ \A i \in PIdx("create_queue", "dlq") :
          /\ i > 1
          /\ (i - 1) \in PIdx("get_queue_url", "dlq")
          /\ ~pcalls[i - 1].ok
    /\ Cardinality(Made(pcalls)) <= 1
    /\ \A i \in Made(pcalls) : \A k \in 1..(i - 1) : ~DlqResolvedAt(k)
    /\ dlq_url \in {"none", QueueUrlOf("dlq")}
    /\ dlq_url # "none" <=> \E i \in 1..Len(pcalls) : DlqResolvedAt(i)
    /\ \A F \in SUBSET (1..4) : SetupTwice(F)

C18_Witness ==
    /\ dlq_url = QueueUrlOf("dlq")
    /\ \E i \in Made(pcalls) :
          \E k \in POk("get_queue_url", "dlq") : i < k

(***************************************************************************)
(* C19: provisioning with the main queue already there.  When its          *)
(* attributes hold a redrive policy, no set_queue_attributes call is       *)
(* issued and the attributes are left as they were; when they hold none,   *)
(* the policy (ARN of the DLQ, configured max receive count) is applied at *)
(* most once, and exactly once when no call raised other than the look-up  *)
(* of a DLQ that is yet to be created.                                     *)
(***************************************************************************)
C19_ExistingConfigurationKept ==
    [][(ProvisionStep /\ sqs.exists["main"]) =>
          LET before == sqs.attrs["main"]
              after  == sqs'.attrs["main"]
              sets   == {i \in 1..Len(pcalls') :
                            pcalls'[i].op = "set_queue_attributes"}
          IN  /\ before.RedrivePolicy # NoPolicy =>
                    (sets = {} /\ after = before)
              /\ before.RedrivePolicy = NoPolicy =>
                    /\ Cardinality(sets) <= 1
                    /\ after \in {before, RedriveAttributes(ArnOf("dlq"))}
                    /\ (\A i \in 1..Len(pcalls') :
                            \/ pcalls'[i].ok
                            \/ /\ pcalls'[i].op = "get_queue_url"
                               /\ pcalls'[i].queue = "dlq") =>
                          /\ Cardinality(sets) = 1
                          /\ after = Attributes(SQS_VISIBILITY_TIMEOUT,
                                                Policy(ArnOf("dlq"),
                                                       SQS_MAX_RECEIVE_COUNT))
       ]_vars

C19_Witness ==
    /\ pc = "loop_check"
    /\ POk("get_queue_attributes", "main") # {}
    /\ PIdx("set_queue_attributes", "main") = {}
    /\ sqs.attrs["main"].RedrivePolicy.deadLetterTargetArn = "arn:other"

(***************************************************************************)
(* C20: every create_queue or set_queue_attributes call that carries a     *)
(* redrive policy is issued after the DLQ was found or created and its ARN *)
(* read, with dlq_url resolved; the policy's target is the ARN of the DLQ  *)
(* and its maxReceiveCount the configured one.                             *)
(***************************************************************************)
C20_DlqBeforeBinding ==
    \A i \in 1..Len(pcalls) :
        BindsAt(i) =>
          /\ \E k \in 1..(i - 1) : DlqResolvedAt(k)
          /\ \E k \in POk("get_queue_attributes", "dlq") : k < i
          /\ dlq_url = QueueUrlOf("dlq")
          /\ sqs.exists["dlq"]
          /\ pcalls[i].queue = "main"
          /\ pcalls[i].attrs.RedrivePolicy =
                Policy(ArnOf("dlq"), SQS_MAX_RECEIVE_COUNT)

C20_Witness ==
    /\ pc = "loop_check"
    /\ \E i \in Made(pcalls) :
       \E k \in POk("create_queue", "main") : i < k /\ BindsAt(k)

\* ---------------------------------------------------------------------
\* C21  The queue URL is resolved once and cached.  In every reachable
\* state where queue_url is set, a call of _get_queue_url returns that same
\* URL, issues no call to the queue service and leaves the processor's
\* fields and the service as they are, whatever the service would answer;
\* where queue_url is unset the call does go to the service, and when it
\* returns it has set the main queue's URL.  queue_url is unset all through
\* start-up and set all through the loop: it is never cleared once set.
CachedCall(F) ==
    LET P == get_queue_url(Provisioning(F))
    IN  IF queue_url # "none"
        THEN /\ P.log = <<>>
             /\ ~P.raised
             /\ P.queue_url = queue_url
             /\ P.dlq_url = dlq_url
             /\ P.sqs = sqs
        ELSE /\ P.log # <<>>
             /\ P.log[1].op = "get_queue_url"
             /\ ~P.raised => P.queue_url = QueueUrlOf("main")
             /\ P.raised => P.queue_url = "none"

C21_QueueUrlCached ==
    /\ queue_url \in {"none", QueueUrlOf("main")}
    /\ pc \in WaitPcs \cup {"get_queue_url"} => queue_url = "none"
    /\ pc \in {"loop_check", "receive", "sleep"} =>
          queue_url = QueueUrlOf("main")
    /\ queue_url # "none" => pcalls # <<>>
    /\ \A F \in SUBSET CallSlots : CachedCall(F)

\* the queue URL is cached, the processor is in its loop, and the queue
\* service would fail every call if it were asked again
C21_Witness ==
    /\ queue_url = QueueUrlOf("main")
    /\ pc \in {"receive", "sleep"}
    /\ pcalls # <<>>
    /\ get_queue_url(Provisioning(CallSlots)).log = <<>>
    /\ get_queue_url(Provisioning(CallSlots)).queue_url = queue_url

(***************************************************************************)
(* The store under concurrent clients (StoreSpec)                          *)
(***************************************************************************)
HasData(t) == <<"count", t>> \in store.keys \/ <<"sum", t>> \in store.keys

\* a get_event_stats call: the step that writes hist.read
ReadStep ==
    /\ hist' = [hist EXCEPT !.read = hist'.read]
    /\ hist'.read \in Types
    /\ UNCHANGED <<store, rpc, reset_types>>

\* an increment_event call
IncrementStep == hist'.calls = hist.calls + 1

\* a reset_stats call returning
ResetCompletes == hist'.done = hist.done + 1

\* ---------------------------------------------------------------------
\* C22  increment_event is one atomic unit.  While no reset_stats is called,
\* in every state reached: a count key exists exactly when its sum key does,
\* every type with data is in the registry, and the count of every type is
\* the number of updates its sum received; and every get_event_stats that
\* returns statistics returns a count equal to the number of updates the
\* sum it returns received.
AtomicUnit ==
    \A t \in Types :
        /\ <<"count", t>> \in store.keys <=> <<"sum", t>> \in store.keys
        /\ HasData(t) => t \in store.event_types
        /\ store.count[t] = hist.summed[t]

C22_IncrementAtomic ==
    [][hist'.begun = 0 =>
          /\ AtomicUnit'
          /\ (ReadStep /\ stats' # <<>>) =>
                stats'[1].count = hist.summed[hist'.read]]_vars

C24_ResetAtomic == \A t \in Types : HasData(t) => t \in store.event_types

C26_MonotoneTogether ==
    [][IncrementStep =>
          \A t \in Types :
              /\ store'.count[t] >= store.count[t]
              /\ store'.sum[t] >= store.sum[t]
              /\ store'.count[t] # store.count[t] <=>
                     hist'.summed[t] # hist.summed[t]]_vars

\* ---------------------------------------------------------------------
\* C27  EventStats.average is total / count when count > 0 and 0 when
\* count = 0, whatever the total, and it never faults: for the EventStats a
\* reader holds and for every EventStats with small fields.
AverageOf(es) ==
    LET a == average(es)
    IN  /\ ~a.fault
        /\ a.den # 0
        /\ es.count > 0 => a.num * es.count = es.total * a.den
        /\ es.count = 0 => a.num = 0

C27_AverageTotal ==
    /\ stats # <<>> => AverageOf(stats[1])
    /\ \A c \in 0..MaxIncs, t \in (0 - 2 * MaxIncs)..(2 * MaxIncs) :
          AverageOf([count |-> c, total |-> t])

\* a reader got count 2 and total 1 from the store (the values -1 and 2):
\* the average is 1/2; and a count of 0 with a total of 2 gives 0
C27_Witness ==
    /\ stats = <<[count |-> 2, total |-> 1]>>
    /\ hist.read \in Types
    /\ average(stats[1]) = Quotient(1, 2)
    /\ average([count |-> 0, total |-> 2]).num = 0

\* ---------------------------------------------------------------------
\* C28  RedisClient.ping never raises on a transient failure of the store:
\* it returns true when the store answers and false for every kind of
\* network failure, a refused or lost connection and a timeout alike; so
\* does every health-check the processor makes at start-up.
TransientFailures == {"ConnectionError", "TimeoutError"}

C28_PingNeverRaises ==
    /\ reply = "PONG" => health = "true" /\ ping(reply) = "true"
    /\ reply \in TransientFailures =>
          health = "false" /\ ping(reply) = "false"

\* ---------------------------------------------------------------------
\* C29  The lifecycle only moves forward.  Every step keeps the processor
\* in its state or moves it to a later one of STARTING, WAITING_FOR_STORE
\* (provisioning included), RUNNING, SHUTTING_DOWN, STOPPED; and whenever a
\* receive_message call is about to be issued or has been issued, a
\* health-check has succeeded and _get_queue_url has returned with the DLQ
\* and the main queue resolved.
Lifecycle ==
    CASE pc = "wait_redis" /\ attempt = 0 /\ health = "none" -> 0 \* STARTING
      [] pc \in WaitPcs \cup {"get_queue_url"}                -> 1
      [] pc \in LoopPcs /\ running                            -> 2 \* RUNNING
      [] pc \in LoopPcs /\ ~running                           -> 3
      [] OTHER                                                -> 4 \* STOPPED

Started ==
    /\ health = "true"
    /\ queue_url = QueueUrlOf("main")
    /\ dlq_url = QueueUrlOf("dlq")
    /\ pcalls # <<>>

C29_LifecycleForward ==
    [][/\ Lifecycle' >= Lifecycle
       /\ pc' \in LoopPcs => Started'
       /\ (\E i \in 1..Len(calls') : calls'[i].op = "receive_message") =>
             Started']_vars

\* the whole lifecycle was walked through: the processor waited for the
\* store, provisioned, ran three batch cycles, was told to stop in its loop
\* and stopped
C29_Witness ==
    /\ pc = "stopped"
    /\ Lifecycle = 4
    /\ stopAt.pc \in LoopPcs
    /\ cycles = MaxCycles
    /\ Started
    /\ \E i \in 1..Len(calls) : calls[i].op = "receive_message"

\* ---------------------------------------------------------------------
\* C30  A message whose aggregation has failed on every delivery is never
\* deleted, and the processor never moves a message to the DLQ: a message
\* enters the DLQ only in a receive_message step of the queue service, and
\* the processor issues no queue call other than receive_message,
\* change_message_visibility and delete_message.  With the main queue bound
\* to the DLQ a message is delivered at most SQS_MAX_RECEIVE_COUNT times;
\* once it has been delivered that often, the next thing that happens to it
\* is that it leaves the main queue, deleted or moved to the DLQ; and a
\* message that has left never comes back.  So the number of deliveries a
\* message can still get shrinks with every delivery until it leaves.
Bound == sqs.attrs["main"] = RedriveAttributes(ArnOf("dlq"))

NeverAggregated(id) == ValidBody(q[id].body) /\ applied[id] = 0

Left(id) == q[id].st \in {"deleted", "dlq"}

event_counts == store.count

event_sums == store.sum

\* lines 35-62 of src/process.py for one message: the queue call made,
\* whether the counters are updated, whether the message is deleted and
\* whether an exception leaves process_messages.  json.loads and
\* SQSMessageBody(**body_dict) are guarded by except JSONDecodeError and
\* except ValidationError only.
LoopBody(m, body, delOk) ==
    LET parsed == json_loads(body)
        del    == Call("delete_message", m.h, delOk)
    IN  IF ~parsed.ok
        THEN Outcome(<<del>>, FALSE, delOk, 0, ~delOk)
        ELSE IF parsed.doc.t # "object"
        THEN Outcome(<<>>, FALSE, FALSE, 0, TRUE)        \* TypeError
        ELSE IF ~SQSMessageBody(parsed.doc.f).ok
        THEN Outcome(<<del>>, FALSE, delOk, 0, ~delOk)
        ELSE Outcome(<<del>>, TRUE, delOk, 1, ~delOk)

\* event_counts[message_type] += 1; event_sums[message_type] += value
Accumulate(s, event_type, value) ==
    [s EXCEPT !.count[event_type] = @ + 1,
              !.sum[event_type] = @ + value,
              !.keys = @ \cup {<<"count", event_type>>, <<"sum", event_type>>}]

MemInit ==
    /\ pc = "receive"
    /\ running = TRUE
    /\ queue_url = QueueUrlOf("main")
    /\ attempt = 0
    /\ q \in [Ids -> {[body |-> b, rc |-> 0, st |-> "visible"] : b \in Bodies}]
    /\ store = EmptyStore
    /\ messages = <<>>
    /\ idx = 1
    /\ processed_count = 0
    /\ ret = <<>>
    /\ calls = <<>>
    /\ applied = [id \in Ids |-> 0]
    /\ stopAt = [pc |-> "none", idx |-> 0, cycle |-> 0]
    /\ rcvAfterStop = 0
    /\ aborted = FALSE
    /\ failedInc = {}
    /\ failedDel = {}
    /\ cycles = 0
    /\ faults = 0
    /\ health = "none"
    /\ wait_time = 0
    /\ dlq_url = "none"
    /\ sqs = [exists |-> [dlq |-> FALSE, main |-> TRUE],
              attrs |-> [dlq |-> DefaultAttributes, main |-> DefaultAttributes]]
    /\ pcalls = <<>>
    /\ outages = 0
    /\ slept = FALSE
    /\ reply = "none"
    /\ ClientsIdle

\* lines 26-33: receive_message; an exception leaves process_messages and
\* is caught by message_processor, which sleeps and calls it again
MemReceive ==
    /\ pc = "receive"
    /\ cycles < MaxCycles
    /\ cycles' = cycles + 1
    /\ idx' = 1
    /\ \/ /\ faults < MaxFaults
          /\ faults' = faults + 1
          /\ calls' = Append(calls, Call("receive_message", NoHandle, FALSE))
          /\ messages' = <<>>
          /\ pc' = "receive"
          /\ q' = q
          /\ aborted' = TRUE
       \/ \E S \in SUBSET {id \in DOMAIN q : q[id].st \in {"visible", "inflight"}} :
             LET dead == Redrive(S)
                 live == S \ dead
             IN  /\ Cardinality(live) <= MAX_MESSAGES_PER_BATCH
                 /\ q' = [id \in DOMAIN q |->
                            IF id \in dead THEN [q[id] EXCEPT !.st = "dlq"]
                            ELSE IF id \in live
                            THEN [q[id] EXCEPT !.st = "inflight", !.rc = @ + 1]
                            ELSE q[id]]
                 /\ calls' = Append(calls, Call("receive_message", NoHandle, TRUE))
                 /\ messages' = SeqOf(live, TRUE)
                 /\ faults' = faults
                 /\ aborted' = FALSE
                 /\ pc' = IF live = {} THEN "receive" ELSE "process"
    /\ UNCHANGED clientVars
    /\ UNCHANGED <<running, queue_url, attempt, store, processed_count, ret,
                   applied, stopAt, rcvAfterStop, failedInc, failedDel, slept>>
    /\ UNCHANGED startVars

\* lines 35-62: one pass of the for loop
MemHandle ==
    /\ pc = "process"
    /\ \E delOk \in BOOLEAN :
          LET m  == messages[idx]
              b  == q[m.id].body
              ev == EventOf(b)
              r  == LoopBody(m, b, delOk)
          IN  /\ faults + Failed(r.calls) <= MaxFaults
              /\ faults' = faults + Failed(r.calls)
              /\ calls' = calls \o r.calls
              /\ store' = IF r.applied
                          THEN Accumulate(store, ev.type, ev.value)
                          ELSE store
              /\ applied' = IF r.applied
                            THEN [applied EXCEPT ![m.id] = @ + 1]
                            ELSE applied
              /\ q' = IF r.deleted
                      THEN [q EXCEPT ![m.id].st = "deleted"]
                      ELSE q
              /\ aborted' = r.raised
              /\ idx' = idx + 1
              /\ pc' = IF r.raised \/ idx = Len(messages)
                       THEN "receive" ELSE "process"
    /\ UNCHANGED clientVars
    /\ UNCHANGED <<running, queue_url, attempt, messages, processed_count,
                   ret, stopAt, rcvAfterStop, cycles, failedInc, failedDel,
                   slept>>
    /\ UNCHANGED startVars

MemNext == MemReceive \/ MemHandle

MemSpec == MemInit /\ [][MemNext]_vars

\* the successful delete_message calls made for message id, over all batches
DeletesOf(id) ==
    {i \in 1..Len(calls) :
        calls[i].op = "delete_message" /\ calls[i].ok /\ calls[i].h[1] = id}

QueueCallsSucceed == \A i \in 1..Len(calls) : calls[i].ok

\* C31: in the in-memory variant, between batches in which every queue call
\* succeeded, event_counts[t] is the number of valid messages of type t
\* received so far and event_sums[t] the sum of their values, no invalid
\* message has changed a counter, and every received message has been
\* deleted exactly once.
C31_InMemoryTotals ==
    (pc = "receive" /\ QueueCallsSucceed)
    => /\ \A t \in Types :
             /\ event_counts[t] = SumOver(OfType(t), [id \in Ids |-> q[id].rc])
             /\ event_sums[t] = SumOver(OfType(t),
                    [id \in Ids |-> q[id].rc * ValueOf(q[id].body)])
       /\ \A id \in Ids : ~ValidBody(q[id].body) => applied[id] = 0
       /\ \A id \in Ids :
             q[id].rc > 0 => /\ Cardinality(DeletesOf(id)) = 1
                             /\ q[id].st = "deleted"

\* the same statement for batches that hold no JSON text other than an object
C31_MappingsOnly ==
    (\A id \in Ids : Malformed(q[id].body) \/ IsObject(q[id].body))
    => C31_InMemoryTotals


\* the bodies of the batch that json.loads rejects or reads as an object
MappingsOnly ==
    \A j \in 1..Len(messages) :
        Malformed(BodyOf(messages[j])) \/ IsObject(BodyOf(messages[j]))

\* C32: within a batch cycle, whatever the outcome for one message (a
\* validation failure, an increment failure, or a failure of the
\* delete_message or change_message_visibility call made for it), the cycle
\* goes on to the next message unless shutdown was requested: a cycle that
\* received messages and ended with the flag still set examined every one.
\* Stated for batches of undecodable text and JSON objects.
C32_CycleGoesOn ==
    (CycleDone /\ running /\ Len(messages) > 0 /\ MappingsOnly)
    => idx = Len(messages) + 1

\* the same statement for the failures caught per message: no delete_message
\* call of the cycle raised for a message that was not aggregated
C32_CaughtPerMessage ==
    (\A i \in 1..Len(calls) :
        (calls[i].op = "delete_message" /\ ~calls[i].ok)
        => \E k \in 1..Len(calls) :
              /\ calls[k].op = "increment_event"
              /\ calls[k].h = calls[i].h
              /\ calls[k].ok)
    => C32_CycleGoesOn


\* the position in the batch of the message a call was made for
PosOf(h) == CHOOSE j \in 1..Len(messages) : messages[j].h = h

\* the calls of the cycle made for a message
MessageCalls == {i \in 1..Len(calls) : calls[i].op # "receive_message"}

\* C33: messages are handled strictly one at a time in receive order: every
\* call of the cycle made for a message is made for a message of the batch
\* that the loop has reached, and all calls for one message come before any
\* call for a later one, so the increment_event and delete_message calls
\* occur in receive order.
C33_ReceiveOrder ==
    /\ \A i \in MessageCalls :
          /\ \E j \in 1..Len(messages) : messages[j].h = calls[i].h
          /\ PosOf(calls[i].h) <= idx
          /\ pc = "for_check" => PosOf(calls[i].h) < idx
    /\ \A i, k \in MessageCalls :
          i < k => PosOf(calls[i].h) <= PosOf(calls[k].h)
    /\ \A op \in {"increment_event", "delete_message"} :
          \A i, k \in MessageCalls :
             (i < k /\ calls[i].op = op /\ calls[k].op = op)
             => PosOf(calls[i].h) < PosOf(calls[k].h)

C33_Witness ==
    /\ CycleDone
    /\ Len(messages) = 2
    /\ \A j \in 1..2 :
          /\ CallIdx("increment_event", messages[j].h) # {}
          /\ CallIdx("delete_message", messages[j].h) # {}
    /\ \E j \in 1..2 : CallIdx("change_message_visibility", messages[j].h) # {}


\* C34: when receive_message returns no messages or raises, the batch cycle
\* returns 0 and makes no delete_message, change_message_visibility or
\* increment_event call: the only call of the cycle is the receive_message
\* itself, the aggregates are the ones the cycle found, no message is
\* deleted or delivered, and nothing more is called or changed until the
\* next cycle begins.  A message changes only by the queue service moving it
\* to the dead-letter queue in an answered receive.
C34_EmptyOrFailedReceive ==
    [][ /\ (pc = "receive" /\ pc' # "receive" /\ messages' = <<>>)
           => /\ ret' = <<0>>
              /\ pc' = "sleep"
              /\ Len(calls') = 1
              /\ calls'[1].op = "receive_message"
              /\ store' = store
              /\ applied' = applied
              /\ processed_count' = 0
              /\ \A id \in DOMAIN q :
                    /\ q'[id].body = q[id].body
                    /\ q'[id].rc = q[id].rc
                    /\ q'[id].st # q[id].st
                       => /\ q[id].st \in {"visible", "inflight"}
                          /\ q'[id].st = "dlq"
                          /\ calls'[1].ok
        /\ (CycleDone /\ messages = <<>> /\ pc # "receive")
           => /\ ret = <<0>>
              /\ pc \in {"sleep", "loop_check", "stopped"}
              /\ calls' = calls
              /\ store' = store
              /\ q' = q
              /\ ret' = ret ]_vars

\* a receive_message call that raised after an earlier cycle aggregated a
\* message, with a message still waiting in the queue
C34_Witness ==
    /\ pc = "loop_check"
    /\ slept
    /\ messages = <<>>
    /\ ret = <<0>>
    /\ Len(calls) = 1
    /\ ~calls[1].ok
    /\ store # EmptyStore
    /\ \E id \in DOMAIN q : q[id].st = "visible"


\* the main queue existed when the i-th provisioning call was issued: queues
\* are never removed and only a create_queue call that made the queue adds it
MainExistedAt(i) ==
    /\ sqs.exists["main"]
    /\ \A k \in PIdx("create_queue", "main") : k >= i => ~pcalls[k].made

\* C35: _get_queue_url calls create_queue for the main queue only when the
\* lookup of the main queue by name was made and failed because the queue is
\* absent; a main queue that exists is never passed to create_queue, whatever
\* errors occur during DLQ setup or attribute configuration.
C35_CreateOnlyWhenAbsent ==
    \A i \in PIdx("create_queue", "main") :
        /\ \E k \in PIdx("get_queue_url", "main") : k < i /\ ~pcalls[k].ok
        /\ ~MainExistedAt(i)

\* what the code guarantees: once the lookup of the main queue has succeeded
\* no create_queue call is made for it, whatever the configuration calls do
C35_FoundNeverCreated ==
    POk("get_queue_url", "main") # {} => PIdx("create_queue", "main") = {}


\* C36: process_messages never raises: for every failure of a queue call, a
\* store call or message parsing the cycle ends by returning to run() an
\* integer between 0 and the batch size (the value is kept until the next
\* receive_message call).  Until it returns the cycle is inside its loop; an
\* exception that reaches the handler of the whole cycle has produced the
\* return value 0.
C36_NeverRaises ==
    /\ Len(messages) <= MAX_MESSAGES_PER_BATCH
    /\ CycleDone
       => /\ \E n \in 0..Len(messages) : ret = <<n>>
          /\ pc \in {"sleep", "loop_check", "receive", "stopped"}
    /\ ~CycleDone => (pc \in {"for_check", "process"} \/ calls = <<>>)
    /\ aborted => ret = <<0>>
    /\ pc = "exited" => calls = <<>>

\* a cycle in which one message was processed and the next one's failure
\* reached the handler of the whole cycle
C36_Witness ==
    /\ aborted
    /\ processed_count = 1
    /\ ret = <<0>>
    /\ Len(messages) = 2
    /\ failedDel = {}
    /\ \E i \in 1..Len(calls) : ~calls[i].ok


\* the failed calls of the cycle are change_message_visibility calls
OnlyVisibilityFailed ==
    /\ \E i \in 1..Len(calls) : ~calls[i].ok
    /\ \A i \in 1..Len(calls) :
          ~calls[i].ok => calls[i].op = "change_message_visibility"

\* C37: a failure of change_message_visibility for a redelivered message is
\* swallowed by _extend_message_visibility: the message is then validated,
\* aggregated and deleted exactly as if the extension had succeeded, and the
\* cycle's return value is unaffected.  For the message being handled, the
\* outcome with the extension failing is the outcome with it succeeding, call
\* for call, whatever the other calls do; and a cycle whose only failed calls
\* are extensions ends as a cycle without failures does.
C37_VisibilityFailureSwallowed ==
    /\ pc = "process"
       => \A incOk, delOk \in BOOLEAN :
             LET m    == Current(messages, idx)
                 good == HandleMessage(m, BodyOf(m), TRUE, incOk, delOk)
                 bad  == HandleMessage(m, BodyOf(m), FALSE, incOk, delOk)
             IN  /\ bad.applied = good.applied
                 /\ bad.deleted = good.deleted
                 /\ bad.counted = good.counted
                 /\ bad.raised = good.raised
                 /\ Len(bad.calls) = Len(good.calls)
                 /\ \A i \in 1..Len(bad.calls) :
                       IF bad.calls[i].op = "change_message_visibility"
                       THEN /\ i = 1
                            /\ receive_count(m) > 1
                            /\ ~bad.calls[i].ok
                            /\ good.calls[i] = [bad.calls[i] EXCEPT !.ok = TRUE]
                       ELSE bad.calls[i] = good.calls[i]
    /\ (CycleDone /\ running /\ MappingsOnly /\ OnlyVisibilityFailed)
       => /\ ret = <<Cardinality(ValidPositions)>>
          /\ \A j \in ValidPositions :
                /\ Cardinality(CallIdx("increment_event", messages[j].h)) = 1
                /\ \A i \in CallIdx("increment_event", messages[j].h) :
                      /\ calls[i].type = TypeOf(BodyOf(messages[j]))
                      /\ calls[i].value = ValueOf(BodyOf(messages[j]))
          /\ \A j \in 1..Len(messages) :
                /\ Cardinality(CallIdx("delete_message", messages[j].h)) = 1
                /\ q[messages[j].id].st = "deleted"

\* a redelivered valid message whose extension failed, aggregated, deleted
\* and counted
C37_Witness ==
    /\ CycleDone
    /\ running
    /\ OnlyVisibilityFailed
    /\ ret = <<Len(messages)>>
    /\ \E j \in 1..Len(messages) :
          /\ receive_count(messages[j]) > 1
          /\ ValidBody(BodyOf(messages[j]))
          /\ \E i \in CallIdx("change_message_visibility", messages[j].h) :
                ~calls[i].ok
          /\ q[messages[j].id].st = "deleted"


\* the shutdown handler ran before the first message of a batch was
\* examined: during the store wait, during provisioning, between two cycles,
\* with the receive_message call of the cycle not yet returned, or with the
\* batch received and the loop not yet at its first message
StoppedBeforeFirstMessage ==
    /\ ~running
    /\ \/ stopAt.pc \in {"wait_redis", "backoff", "get_queue_url",
                         "loop_check", "sleep", "receive"}
       \/ stopAt.pc = "for_check" /\ stopAt.idx = 1

\* C38: if the shutdown signal arrives before the first message of a batch is
\* examined, no message is aggregated or deleted afterwards: from then on
\* no step changes the store or deletes a message, no increment_event,
\* delete_message or change_message_visibility call is made, a batch already
\* received (or returned by the receive_message call that was pending) is
\* left as it was delivered, no cycle is begun, and no receive_message call
\* completes other than the one pending when the signal arrived.
C38_StopBeforeFirstMessage ==
    [][ StoppedBeforeFirstMessage
        => /\ store' = store
           /\ applied' = applied
           /\ processed_count' # processed_count
              => (pc = "receive" /\ processed_count' = 0)
           /\ \A id \in DOMAIN q : q'[id].st = "deleted" => q[id].st = "deleted"
           /\ calls' # calls
              => /\ pc = "receive"
                 /\ stopAt.pc = "receive"
                 /\ Len(calls') = 1
                 /\ calls'[1].op = "receive_message"
           /\ pc' # "process"
           /\ pc' = "receive" => pc = "receive"
           /\ cycles' = cycles
           /\ rcvAfterStop' <= (IF stopAt.pc = "receive" THEN 1 ELSE 0)
           /\ pc = "loop_check" => pc' = "stopped"
           /\ pc = "stopped" => pc' = "stopped" ]_vars

\* the signal arrived while the receive_message call was pending; the call
\* returned two messages and run() returned with both left in flight
C38_Witness ==
    /\ pc = "stopped"
    /\ stopAt.pc = "receive"
    /\ rcvAfterStop = 1
    /\ Len(messages) = 2
    /\ Len(calls) = 1
    /\ ret = <<0>>
    /\ \A j \in 1..2 : q[messages[j].id].st = "inflight"

====
